---- MODULE Spec2Model ----
(***************************************************************************)
(* Model of the adaptive mastering-parameter engine of oneclick-master:    *)
(* the training corpus (training_database.py) and the intelligent          *)
(* mastering engine (intelligent_mastering_engine.py).                     *)
(*                                                                         *)
(* Numbers.  The program computes with IEEE doubles.  Every real quantity  *)
(* (LUFS, dB, ratios, widths, emphasis, Q) is held here as an integer      *)
(* number of thousandths: -13.5 LUFS is -13500, a ratio of 2.5 is 2500.    *)
(* Frequencies (Hz) and times (ms) are whole numbers as in the source.     *)
(* A product by a decimal constant is MulK(x, k) = floor(x * k / 1000).    *)
(***************************************************************************)
EXTENDS Integers, Sequences, FiniteSets, TLC

\* ------------------------------------------------------------------ bounds
\* Number of distinct file_path values the corpus can hold.
MaxTracks == 5
\* Number of store_track_analysis calls in one behaviour.
MaxStores == 6

\* ------------------------------------------------------- fixed-point helpers
Max(a, b) == IF a >= b THEN a ELSE b
Min(a, b) == IF a <= b THEN a ELSE b
Abs(a) == IF a < 0 THEN -a ELSE a

\* x * k for a decimal constant k given in thousandths
MulK(x, k) == (x * k) \div 1000

\* ---------------------------------------------------------------- strings
\* Genre names as the callers write them; str.lower() maps each to its
\* lower-case form.
GenreNames == {"Trap", "trap", "xyz"}

Lower(g) ==
  IF g \in {"Trap", "TRAP"} THEN "trap"
  ELSE IF g = "Pop" THEN "pop"
  ELSE IF g = "RnB" THEN "rnb"
  ELSE IF g = "Slow Song" THEN "slow song"
  ELSE g

\* Binary collation order of the genre names (upper case sorts first), the
\* order in which GROUP BY genre returns its groups.
GenreOrder == <<"Trap", "trap", "xyz">>

EqBandNames == {"sub_bass", "bass", "low_mid", "mid", "high_mid", "presence", "air"}

MbBandNames == {"low", "mid", "high"}

\* ------------------------------------------------- MasteringParameters
EqBand(f, g, q) == [freq |-> f, gain |-> g, q |-> q]

Comp(t, r, a, rel) == [threshold |-> t, ratio |-> r, attack |-> a, release |-> rel]

\* The dataclass defaults, __post_init__ included.
DefaultEqBands ==
  [b \in EqBandNames |->
     CASE b = "sub_bass" -> EqBand(45, 0, 1200)
       [] b = "bass"     -> EqBand(85, 0, 1300)
       [] b = "low_mid"  -> EqBand(200, 0, 2000)
       [] b = "mid"      -> EqBand(1200, 0, 1400)
       [] b = "high_mid" -> EqBand(3200, 0, 1600)
       [] b = "presence" -> EqBand(5500, 0, 1800)
       [] b = "air"      -> EqBand(12000, 0, 2000)]

DefaultBusCompression == Comp(-8000, 2000, 3, 30)

MasteringParameters ==
  [highpass_freq |-> 30, lowpass_freq |-> 20000,
   eq_bands |-> DefaultEqBands,
   multiband_compression |->
     [b \in MbBandNames |->
        CASE b = "low"  -> Comp(-20000, 2000, 10, 100)
          [] b = "mid"  -> Comp(-18000, 2500, 5, 50)
          [] b = "high" -> Comp(-15000, 3000, 2, 25)],
   bus_compression |-> DefaultBusCompression,
   stereo_width |-> 1000, bass_mono_freq |-> 80,
   saturation_amount |-> 50, harmonic_enhancement |-> 20,
   limiter_ceiling |-> -800, limiter_release |-> 35,
   target_lufs |-> -14000, preserve_dynamics |-> FALSE,
   gentle_processing |-> FALSE]

Eq7(sb, ba, lm, mi, hm, pr, ai) ==
  [b \in EqBandNames |->
     CASE b = "sub_bass" -> sb
       [] b = "bass"     -> ba
       [] b = "low_mid"  -> lm
       [] b = "mid"      -> mi
       [] b = "high_mid" -> hm
       [] b = "presence" -> pr
       [] b = "air"      -> ai]

Mb3(lo, mi, hi) ==
  [b \in MbBandNames |->
     CASE b = "low" -> lo [] b = "mid" -> mi [] b = "high" -> hi]

ProfileNames == {"modern_pop", "bass_heavy_modern", "smooth_vocal_focus",
                 "aggressive_urban", "log_drum_emphasis", "dynamic_preservation"}

\* _initialize_ai_profiles: the six hand-tuned presets.
InitialAiProfiles ==
  [p \in ProfileNames |->
     CASE p = "modern_pop" ->
            [MasteringParameters EXCEPT
               !.target_lufs = -13500,
               !.eq_bands = Eq7(EqBand(40, -1000, 1500), EqBand(80, 800, 1300),
                                EqBand(180, -500, 2200), EqBand(1200, 1000, 1400),
                                EqBand(3000, 1500, 1600), EqBand(5500, 1200, 1800),
                                EqBand(12000, 800, 2000)),
               !.multiband_compression = Mb3(Comp(-18000, 2500, 8, 80),
                                             Comp(-16000, 3000, 3, 40),
                                             Comp(-14000, 3500, 1, 20)),
               !.stereo_width = 1150, !.saturation_amount = 60,
               !.limiter_ceiling = -500, !.limiter_release = 30]
       [] p = "bass_heavy_modern" ->
            [MasteringParameters EXCEPT
               !.target_lufs = -12000,
               !.eq_bands = Eq7(EqBand(35, 2500, 1200), EqBand(85, 2000, 1300),
                                EqBand(200, -1000, 2100), EqBand(1000, 500, 1400),
                                EqBand(3500, 1800, 1600), EqBand(6000, 1000, 1800),
                                EqBand(10000, 500, 2000)),
               !.multiband_compression = Mb3(Comp(-15000, 3000, 12, 100),
                                             Comp(-14000, 2800, 4, 45),
                                             Comp(-12000, 3200, 1, 25)),
               !.stereo_width = 1000, !.bass_mono_freq = 120,
               !.saturation_amount = 80,
               !.limiter_ceiling = -300, !.limiter_release = 25]
       [] p = "smooth_vocal_focus" ->
            [MasteringParameters EXCEPT
               !.target_lufs = -15000,
               !.eq_bands = Eq7(EqBand(40, -500, 1500), EqBand(80, 1000, 1200),
                                EqBand(180, -800, 2200), EqBand(1000, 1500, 1300),
                                EqBand(2800, 2200, 1500), EqBand(5000, 2000, 1700),
                                EqBand(10000, 1200, 2000)),
               !.multiband_compression = Mb3(Comp(-20000, 2000, 15, 120),
                                             Comp(-18000, 2200, 6, 60),
                                             Comp(-16000, 2800, 2, 35)),
               !.stereo_width = 1200, !.saturation_amount = 40,
               !.limiter_ceiling = -800, !.limiter_release = 45,
               !.preserve_dynamics = TRUE]
       [] p = "aggressive_urban" ->
            [MasteringParameters EXCEPT
               !.target_lufs = -11500,
               !.eq_bands = Eq7(EqBand(45, 1800, 1200), EqBand(90, 1500, 1300),
                                EqBand(200, -500, 2000), EqBand(1200, 800, 1400),
                                EqBand(3500, 2500, 1500), EqBand(6000, 2000, 1700),
                                EqBand(12000, 1000, 1900)),
               !.multiband_compression = Mb3(Comp(-16000, 3200, 8, 70),
                                             Comp(-14000, 3500, 2, 35),
                                             Comp(-12000, 4000, 1, 20)),
               !.stereo_width = 1050, !.saturation_amount = 100,
               !.harmonic_enhancement = 50,
               !.limiter_ceiling = -200, !.limiter_release = 20]
       [] p = "log_drum_emphasis" ->
            [MasteringParameters EXCEPT
               !.target_lufs = -12500,
               !.eq_bands = Eq7(EqBand(45, 2200, 1100), EqBand(85, 1800, 1300),
                                EqBand(200, -1200, 2100), EqBand(1200, 800, 1400),
                                EqBand(3200, 1500, 1600), EqBand(5500, 600, 1800),
                                EqBand(12000, 1100, 1900)),
               !.multiband_compression = Mb3(Comp(-18000, 2800, 15, 120),
                                             Comp(-16000, 2200, 8, 60),
                                             Comp(-12000, 2500, 3, 35)),
               !.stereo_width = 1350, !.bass_mono_freq = 90,
               !.saturation_amount = 80,
               !.limiter_ceiling = -800, !.limiter_release = 45]
       [] p = "dynamic_preservation" ->
            [MasteringParameters EXCEPT
               !.target_lufs = -16000,
               !.eq_bands = Eq7(EqBand(35, -1500, 1800), EqBand(80, 500, 1200),
                                EqBand(180, -800, 2200), EqBand(1000, 1200, 1300),
                                EqBand(2800, 2100, 1500), EqBand(5000, 1800, 1700),
                                EqBand(10000, 1500, 2000)),
               !.multiband_compression = Mb3(Comp(-24000, 1800, 25, 200),
                                             Comp(-20000, 2000, 12, 100),
                                             Comp(-18000, 2200, 5, 60)),
               !.bus_compression = Comp(-12000, 1400, 8, 80),
               !.stereo_width = 1150, !.saturation_amount = 30,
               !.limiter_ceiling = -1500, !.limiter_release = 80,
               !.preserve_dynamics = TRUE, !.gentle_processing = TRUE]]

\* dict.get(key, default)
Get(d, key, default) == IF key \in DOMAIN d THEN d[key] ELSE default

\* round(x, n) on thousandths: to the nearest multiple of step, ties to even
Round(x, step) ==
  LET lo == (x \div step) * step
      r  == x - lo
  IN  IF 2 * r < step THEN lo
      ELSE IF 2 * r > step THEN lo + step
      ELSE IF (lo \div step) % 2 = 0 THEN lo ELSE lo + step

\* ------------------------------------------------------- training corpus
NoRow == [none |-> TRUE]

Paths == 1..MaxTracks

\* The analyses the training run stores (columns that some query reads).
Sample(g, l, dr, b, h, w, mp) ==
  [genre |-> g, integrated_lufs |-> l, dynamic_range_db |-> dr,
   bass_emphasis |-> b, high_emphasis |-> h, stereo_width |-> w,
   mastering_profile |-> mp]

\* Reference tracks of one training run: a loud narrow trap track, a quieter
\* wide one, and one filed under the capitalised genre name.
TrackKinds ==
  { Sample("trap", -6000, 6000, 500, 300, 700, "modern_pop"),
    Sample("trap", -11000, 12000, 300, 300, 1200, "modern_pop"),
    Sample("Trap", -10000, 8000, 400, 500, 900, "modern_pop") }

\* Reference tracks of one genre that differ in their mastering_profile label
LabelledKinds ==
  { Sample("trap", -9000, 7000, 400, 300, 700, "modern_pop"),
    Sample("trap", -9000, 7000, 400, 300, 700, "aggressive_urban"),
    Sample("trap", -12000, 9000, 300, 400, 800, "smooth_vocal_focus"),
    Sample("xyz", -14000, 11000, 200, 300, 600, "modern_pop") }

\* Rows of training_tracks WHERE genre = g (binary comparison)
RowsOf(tracks, g) ==
  {p \in DOMAIN tracks : tracks[p] # NoRow /\ tracks[p].genre = g}

RECURSIVE SumOf(_, _, _)
SumOf(tracks, S, col) ==
  IF S = {} THEN 0
  ELSE LET p == CHOOSE q \in S : TRUE
       IN  tracks[p][col] + SumOf(tracks, S \ {p}, col)

\* AVG(col) over a non-empty set of rows
Avg(tracks, S, col) == SumOf(tracks, S, col) \div Cardinality(S)

\* SELECT genre, COUNT(*) FROM training_tracks GROUP BY genre
GenreCounts(tracks) ==
  [g \in {tracks[p].genre : p \in {q \in DOMAIN tracks : tracks[q] # NoRow}}
     |-> Cardinality(RowsOf(tracks, g))]

\* SELECT COUNT(*), AVG(...) FROM training_tracks WHERE genre = g: one statement,
\* one snapshot.  Called only after a row of genre g was written.
GenreStats(tracks, g) ==
  LET S == RowsOf(tracks, g)
  IN  [track_count |-> Cardinality(S),
       avg_lufs |-> Avg(tracks, S, "integrated_lufs"),
       avg_dynamic_range |-> Avg(tracks, S, "dynamic_range_db"),
       avg_bass_emphasis |-> Avg(tracks, S, "bass_emphasis"),
       avg_high_emphasis |-> Avg(tracks, S, "high_emphasis"),
       avg_stereo_width |-> Avg(tracks, S, "stereo_width")]

ProfileCount(tracks, g, mp) ==
  Cardinality({p \in RowsOf(tracks, g) : tracks[p].mastering_profile = mp})

\* GROUP BY mastering_profile ORDER BY count DESC LIMIT 1: the query names no
\* second sort key, so any label with the highest count may come back.
MostCommonProfiles(tracks, g) ==
  LET labels == {tracks[p].mastering_profile : p \in RowsOf(tracks, g)}
  IN  {mp \in labels :
         \A other \in labels : ProfileCount(tracks, g, mp) >= ProfileCount(tracks, g, other)}

\* --------------------------------------------------- engine: genre templates
\* Sample threshold of _load_genre_templates
MinReferences == 5

\* The template dict built from one AVG row (stats) and the count read before.
EngineTemplate(genre, count, stats) ==
  [genre |-> genre,
   target_parameters |->
     [lufs_target |-> stats.avg_lufs,
      dynamic_range_target |-> stats.avg_dynamic_range,
      bass_emphasis |-> stats.avg_bass_emphasis,
      high_emphasis |-> stats.avg_high_emphasis,
      stereo_width |-> stats.avg_stereo_width],
   reference_count |-> count,
   processing_recommendations |->
     [compression |-> [ratio |-> 2500],
      eq |-> [bass_boost |-> Max(0, stats.avg_bass_emphasis - 300)],
      limiting |-> [ceiling |-> -800]]]

\* templates[genre] = t
SetItem(d, key, val) ==
  [k \in DOMAIN d \cup {key} |-> IF k = key THEN val ELSE d[k]]

\* One pass of the loop body "for genre, count in genres" against the table
\* contents the AVG statement sees.
LoadOneGenre(templates, genre, count, tracks) ==
  IF count >= MinReferences /\ RowsOf(tracks, genre) # {}
  THEN SetItem(templates, genre, EngineTemplate(genre, count, GenreStats(tracks, genre)))
  ELSE templates

\* _load_genre_templates run against an unchanging table
RECURSIVE LoadFrom(_, _, _, _)
LoadFrom(templates, genres, i, tracks) ==
  IF i > Len(GenreOrder) THEN templates
  ELSE LET g == GenreOrder[i]
       IN  LoadFrom(IF g \in DOMAIN genres
                    THEN LoadOneGenre(templates, g, genres[g], tracks)
                    ELSE templates,
                    genres, i + 1, tracks)

load_genre_templates(tracks) == LoadFrom(<<>>, GenreCounts(tracks), 1, tracks)

\* ------------------------------------------------------- engine: resolve
SetGain(params, band, g) == [params EXCEPT !.eq_bands[band].gain = g]

\* AddGain taking its dB argument for tenths of a dB
AddGainTenfold(params, band, d) == SetGain(params, band, params.eq_bands[band].gain + 10 * d)

AddGain(params, band, d) == SetGain(params, band, params.eq_bands[band].gain + d)

\* GentlerBand with the ratio halved instead of scaled by 0.8
GentlerBandHalved(band) ==
  [band EXCEPT !.ratio = MulK(@, 500), !.threshold = @ - 2000]

\* band["ratio"] *= 0.8; band["threshold"] -= 2 for a very dynamic track
GentlerBand(band) ==
  [band EXCEPT !.ratio = MulK(@, 800), !.threshold = @ - 2000]

\* params.stereo_width *= 0.9 for an already wide track
NarrowWidth(w) == MulK(w, 900)

apply_genre_template(params, template) ==
  LET target_params   == template.target_parameters
      processing_recs == template.processing_recommendations
      p1 == IF "lufs_target" \in DOMAIN target_params
            THEN [params EXCEPT !.target_lufs = target_params.lufs_target]
            ELSE params
      p2 == IF "dynamic_range_target" \in DOMAIN target_params
               /\ target_params.dynamic_range_target > 10000
            THEN [p1 EXCEPT !.preserve_dynamics = TRUE, !.gentle_processing = TRUE]
            ELSE p1
      p3 == IF "stereo_width" \in DOMAIN target_params
            THEN [p2 EXCEPT !.stereo_width = Max(800, Min(1500, target_params.stereo_width))]
            ELSE p2
      eq_recs == Get(processing_recs, "eq", <<>>)
      p4 == IF "bass_boost" \in DOMAIN eq_recs /\ eq_recs.bass_boost > 0
            THEN AddGain(AddGain(p3, "bass", eq_recs.bass_boost),
                         "sub_bass", MulK(eq_recs.bass_boost, 700))
            ELSE p3
      p5 == IF "high_boost" \in DOMAIN eq_recs /\ eq_recs.high_boost > 0
            THEN AddGain(AddGain(p4, "presence", eq_recs.high_boost),
                         "air", MulK(eq_recs.high_boost, 800))
            ELSE p4
      p6 == IF "low_mid_cut" \in DOMAIN eq_recs /\ eq_recs.low_mid_cut > 0
            THEN AddGain(p5, "low_mid", -eq_recs.low_mid_cut)
            ELSE p5
      comp_recs == Get(processing_recs, "compression", <<>>)
      p7 == IF "ratio" \in DOMAIN comp_recs
            THEN [p6 EXCEPT !.multiband_compression =
                    [b \in MbBandNames |-> [@[b] EXCEPT !.ratio = comp_recs.ratio]]]
            ELSE p6
      limit_recs == Get(processing_recs, "limiting", <<>>)
      p8 == IF "ceiling" \in DOMAIN limit_recs
            THEN [p7 EXCEPT !.limiter_ceiling = limit_recs.ceiling]
            ELSE p7
      p9 == IF "release" \in DOMAIN limit_recs
            THEN [p8 EXCEPT !.limiter_release = limit_recs.release]
            ELSE p8
  IN  p9

apply_track_specific_optimizations(params, analysis) ==
  LET current_lufs  == Get(analysis, "integrated_lufs", -18000)
      dynamic_range == Get(analysis, "dynamic_range_db", 10000)
      bass_emphasis == Get(analysis, "bass_emphasis", 300)
      high_emphasis == Get(analysis, "high_emphasis", 300)
      stereo_width  == Get(analysis, "stereo_width", 700)
      p1 == IF current_lufs > -12000
            THEN [params EXCEPT !.gentle_processing = TRUE,
                                !.limiter_ceiling = Max(-1000, @),
                                !.target_lufs = Max(-13000, current_lufs - 1000)]
            ELSE IF current_lufs < -20000
            THEN [params EXCEPT !.target_lufs = Min(-13000, @)]
            ELSE params
      p2 == IF dynamic_range > 15000
            THEN [p1 EXCEPT !.preserve_dynamics = TRUE,
                            !.gentle_processing = TRUE,
                            !.multiband_compression =
                               [b \in MbBandNames |-> GentlerBand(@[b])]]
            ELSE IF dynamic_range < 4000
            THEN [p1 EXCEPT !.gentle_processing = TRUE,
                            !.target_lufs = Max(-15000, @)]
            ELSE p1
      p3 == IF bass_emphasis > 450
            THEN [AddGain(p2, "low_mid", -1000) EXCEPT
                    !.bass_mono_freq = Min(120, @ + 20)]
            ELSE IF bass_emphasis < 250
            THEN AddGain(AddGain(p2, "bass", 1000), "sub_bass", 500)
            ELSE p2
      p4 == IF high_emphasis > 400
            THEN SetGain(p3, "presence", Max(0, p3.eq_bands["presence"].gain - 500))
            ELSE IF high_emphasis < 200
            THEN AddGain(AddGain(p3, "presence", 1000), "air", 800)
            ELSE p3
      p5 == IF stereo_width > 800
            THEN [p4 EXCEPT !.stereo_width = NarrowWidth(@)]
            ELSE IF stereo_width < 400
            THEN [p4 EXCEPT !.stereo_width = Min(1300, @ + 200)]
            ELSE p4
  IN  p5

\* copy_params handing back the catalog entry itself
copy_params_alias(source) == source

\* copy.deepcopy(source): the object the caller goes on to mutate.  "fresh" is a
\* newly allocated object; a profile name would be the catalog entry itself.
copy_params(source) == "fresh"

\* BaseLabel falling back to another catalog entry than "modern_pop"
BaseLabelOther(profiles, analysis) ==
  LET mastering_profile == Get(analysis, "mastering_profile", "balanced_modern")
  IN  IF mastering_profile \in DOMAIN profiles THEN mastering_profile
      ELSE "dynamic_preservation"

\* The label whose profile resolve starts from
BaseLabel(profiles, analysis) ==
  LET mastering_profile == Get(analysis, "mastering_profile", "balanced_modern")
  IN  IF mastering_profile \in DOMAIN profiles THEN mastering_profile ELSE "modern_pop"

\* _optimize_mastering_parameters applying the first loaded template to a genre
\* that has none
OptimizedAnyTemplate(profiles, gtemplates, analysis) ==
  LET genre == Lower(Get(analysis, "genre", ""))
      base  == profiles[BaseLabel(profiles, analysis)]
      first == CHOOSE g \in DOMAIN gtemplates : TRUE
      p1    == IF genre \in DOMAIN gtemplates
               THEN apply_genre_template(base, gtemplates[genre])
               ELSE IF gtemplates # <<>>
               THEN apply_genre_template(base, gtemplates[first])
               ELSE base
  IN  apply_track_specific_optimizations(p1, analysis)

\* _optimize_mastering_parameters whose track overlay tests the target it was
\* handed where the code tests the measured loudness
OptimizedTargetTested(profiles, gtemplates, analysis) ==
  LET genre == Lower(Get(analysis, "genre", ""))
      base  == profiles[BaseLabel(profiles, analysis)]
      p1    == IF genre \in DOMAIN gtemplates
               THEN apply_genre_template(base, gtemplates[genre])
               ELSE base
  IN  apply_track_specific_optimizations(
        p1, [k \in DOMAIN analysis |->
               IF k = "integrated_lufs" THEN p1.target_lufs ELSE analysis[k]])

\* _optimize_mastering_parameters running the genre overlay after the track
\* overlay
OptimizedGenreLast(profiles, gtemplates, analysis) ==
  LET genre == Lower(Get(analysis, "genre", ""))
      base  == profiles[BaseLabel(profiles, analysis)]
      p1    == apply_track_specific_optimizations(base, analysis)
  IN  IF genre \in DOMAIN gtemplates
      THEN apply_genre_template(p1, gtemplates[genre])
      ELSE p1

\* The value _optimize_mastering_parameters returns
Optimized(profiles, gtemplates, analysis) ==
  LET genre == Lower(Get(analysis, "genre", ""))
      base  == profiles[BaseLabel(profiles, analysis)]
      p1    == IF genre \in DOMAIN gtemplates
               THEN apply_genre_template(base, gtemplates[genre])
               ELSE base
  IN  apply_track_specific_optimizations(p1, analysis)

\* The extra edits create_enhanced_preview makes to the returned object
PreviewEdits(params) ==
  [params EXCEPT
     !.gentle_processing = TRUE,
     !.target_lufs = -16000,
     !.limiter_ceiling = -1000,
     !.eq_bands = [b \in EqBandNames |-> [@[b] EXCEPT !.gain = MulK(@, 600)]],
     !.saturation_amount = MulK(@, 500),
     !.stereo_width = 1000 + MulK(@ - 1000, 500)]

\* ---------------------------------------------------- engine: filter chain
\* One filter of the chain string: the stage it implements, the ffmpeg filter
\* it names, its settings, the link labels written before (ins) and after
\* (outs) it, and the separator written before it.
Filter(stage, name, args) ==
  [stage |-> stage, filter |-> name, args |-> args,
   ins |-> <<>>, outs |-> <<>>, lead |-> ","]

\* Order of the eq_bands dict
EqOrder == <<"sub_bass", "bass", "low_mid", "mid", "high_mid", "presence", "air">>

\* Significant taking the edge of the dead zone for significant
SignificantFromEdge(gain) == Abs(gain) >= 100

\* abs(band_params["gain"]) > 0.1
Significant(gain) == Abs(gain) > 100

\* The equalizer filters of bands i.. of the dict
RECURSIVE EqFilters(_, _)
EqFilters(params, i) ==
  IF i > Len(EqOrder) THEN <<>>
  ELSE LET band_params == params.eq_bands[EqOrder[i]]
       IN  (IF Significant(band_params.gain)
            THEN <<Filter("eq", "equalizer",
                          [f |-> band_params.freq, q |-> band_params.q,
                           g |-> band_params.gain])>>
            ELSE <<>>) \o EqFilters(params, i + 1)

\* acompressor=threshold=..:ratio=..:attack=..:release=..:makeup=..
Compressor(stage, band, makeup) ==
  Filter(stage, "acompressor",
         [threshold |-> band.threshold, ratio |-> band.ratio,
          attack |-> band.attack, release |-> band.release, makeup |-> makeup])

\* multiband_filter: asplit=3[low][mid][high]; three labelled branches; amix
MultibandFilters(mb) ==
  << [Filter("split", "asplit", [outputs |-> 3]) EXCEPT !.outs = <<"low", "mid", "high">>],
     [Filter("low_filter", "lowpass", [f |-> <<250>>]) EXCEPT !.ins = <<"low">>, !.lead = ";"],
     [Compressor("low_dynamics", mb["low"], 2) EXCEPT !.outs = <<"low_out">>],
     [Filter("mid_filter", "bandpass", [f |-> <<250, 2500>>]) EXCEPT !.ins = <<"mid">>, !.lead = ";"],
     [Compressor("mid_dynamics", mb["mid"], 2) EXCEPT !.outs = <<"mid_out">>],
     [Filter("high_filter", "highpass", [f |-> <<2500>>]) EXCEPT !.ins = <<"high">>, !.lead = ";"],
     [Compressor("high_dynamics", mb["high"], 1) EXCEPT !.outs = <<"high_out">>],
     [Filter("merge", "amix", [inputs |-> 3]) EXCEPT
        !.ins = <<"low_out", "mid_out", "high_out">>, !.outs = <<"mb_out">>, !.lead = ";"] >>

\* The value an option written more than once in a filter's argument list ends
\* up with: ffmpeg sets the options in the order written, the last one stays.
LastSet(values) == values[Len(values)]

\* The -3 dB edges of "bandpass=f=..." with no width given: the filter is a
\* two-pole band-pass around the central frequency f with the default width of
\* Q = 0.5, whose edges lie at f * (sqrt(2) - 1) and f * (sqrt(2) + 1).
BandpassEdges(filter) ==
  LET centre == LastSet(filter.args.f)
  IN  <<MulK(centre, 414), MulK(centre, 2414)>>

\* StereoFilters widening only
StereoFiltersWider(params) ==
  IF params.stereo_width > 1000
  THEN <<Filter("stereo", "extrastereo", [m |-> params.stereo_width - 1000, c |-> 0])>>
  ELSE <<>>

\* 5. Stereo enhancement
StereoFilters(params) ==
  IF params.stereo_width # 1000
  THEN <<Filter("stereo", "extrastereo", [m |-> params.stereo_width - 1000, c |-> 0])>>
  ELSE <<>>

\* FinalFilters limiting before it normalizes
FinalFiltersSwapped(params) ==
  << Filter("limit", "alimiter",
            [level_in |-> 1000, level_out |-> 950, limit |-> params.limiter_ceiling,
             attack |-> 1, release |-> params.limiter_release]),
     Filter("normalize", "loudnorm",
            [I |-> params.target_lufs, TP |-> -1000, LRA |-> 7]) >>

\* 8. loudness normalization, 9. final limiting
FinalFilters(params) ==
  << Filter("normalize", "loudnorm",
            [I |-> params.target_lufs, TP |-> -1000, LRA |-> 7]),
     Filter("limit", "alimiter",
            [level_in |-> 1000, level_out |-> 950, limit |-> params.limiter_ceiling,
             attack |-> 1, release |-> params.limiter_release]) >>

\* ",".join(filters): a separator before every filter but the first
Joined(filters) ==
  [i \in DOMAIN filters |-> IF i = 1 THEN [filters[i] EXCEPT !.lead = ""] ELSE filters[i]]

\* _build_intelligent_filter_chain(params)
build_intelligent_filter_chain(params) ==
  Joined(
    << Filter("highpass", "highpass", [f |-> <<params.highpass_freq>>]),
       Filter("lowpass", "lowpass", [f |-> <<params.lowpass_freq>>]) >>
    \o (IF params.saturation_amount > 0
        THEN <<Filter("saturation", "aexciter",
                      [amount |-> params.saturation_amount, harmonics |-> 8500, scope |-> 0])>>
        ELSE <<>>)
    \o EqFilters(params, 1)
    \o MultibandFilters(params.multiband_compression)
    \o StereoFilters(params)
    \o <<Compressor("bus", params.bus_compression, 1)>>
    \o (IF params.harmonic_enhancement > 0
        THEN <<Filter("harmonic", "aexciter",
                      [amount |-> params.harmonic_enhancement, harmonics |-> 12000, scope |-> 1])>>
        ELSE <<>>)
    \o FinalFilters(params))

\* The graph the chain string describes.  Pads a filter has:
InputPads(f) == IF f.filter = "amix" THEN f.args.inputs ELSE 1

OutputPads(f) == IF f.filter = "asplit" THEN f.args.outputs ELSE 1

Labels(seq) == {seq[k] : k \in DOMAIN seq}

\* Filter i's unlabelled output is linked to filter i+1's unlabelled input:
\* both are written in one chain (a comma between them) and both pads exist.
Chained(chain, i) ==
  /\ i \in DOMAIN chain /\ i + 1 \in DOMAIN chain
  /\ chain[i + 1].lead = ","
  /\ OutputPads(chain[i]) > Len(chain[i].outs)
  /\ InputPads(chain[i + 1]) > Len(chain[i + 1].ins)

\* The links: implicit ones inside a chain, and label to label
Edges(chain) ==
  {<<i, i + 1>> : i \in {j \in DOMAIN chain : Chained(chain, j)}}
    \cup {e \in (DOMAIN chain) \X (DOMAIN chain) :
            Labels(chain[e[1]].outs) \cap Labels(chain[e[2]].ins) # {}}

\* Input pads nothing is linked to
OpenInputs(chain) ==
  {<<i, "">> : i \in {j \in DOMAIN chain :
                       /\ InputPads(chain[j]) > Len(chain[j].ins)
                       /\ ~Chained(chain, j - 1)}}
    \cup UNION {{<<i, l>> : l \in {x \in Labels(chain[i].ins) :
                                      \A j \in DOMAIN chain : x \notin Labels(chain[j].outs)}} :
                 i \in DOMAIN chain}

\* Output pads nothing is linked to
OpenOutputs(chain) ==
  {<<i, "">> : i \in {j \in DOMAIN chain :
                       /\ OutputPads(chain[j]) > Len(chain[j].outs)
                       /\ ~Chained(chain, j)}}
    \cup UNION {{<<i, l>> : l \in {x \in Labels(chain[i].outs) :
                                      \A j \in DOMAIN chain : x \notin Labels(chain[j].ins)}} :
                 i \in DOMAIN chain}

\* _explain_ai_decisions(analysis, params)
explain_ai_decisions(analysis, params) ==
  [target_lufs |->
     [value |-> params.target_lufs,
      reason |-> <<"Optimized for", Get(analysis, "genre", "unknown"),
                   "genre based on training data">>],
   preserve_dynamics |->
     [value |-> params.preserve_dynamics,
      reason |-> "Based on dynamic range analysis and genre characteristics"],
   stereo_processing |->
     [value |-> params.stereo_width,
      reason |-> <<"Optimized for stereo width of", Get(analysis, "stereo_width", "unknown")>>],
   eq_adjustments |->
     {[band |-> b, frequency |-> params.eq_bands[b].freq, gain |-> params.eq_bands[b].gain] :
        b \in {x \in EqBandNames : Abs(params.eq_bands[x].gain) > 500}},
   compression_style |->
     [multiband_ratios |-> [b \in MbBandNames |-> params.multiband_compression[b].ratio],
      reason |-> "AI-optimized ratios based on frequency content and dynamics"]]

\* ------------------------------------------------ training_database queries
\* get_genre_insights(genre)["statistics"], or the error dict
genre_insights(stats_table, genre) ==
  IF stats_table[genre] = NoRow
  THEN [error |-> genre]
  ELSE LET row == stats_table[genre]
       IN  [track_count |-> row.track_count,
            avg_lufs |-> Round(row.avg_lufs, 100),
            avg_dynamic_range |-> Round(row.avg_dynamic_range, 100),
            avg_bass_emphasis |-> Round(row.avg_bass_emphasis, 10),
            avg_high_emphasis |-> Round(row.avg_high_emphasis, 10),
            avg_stereo_width |-> Round(row.avg_stereo_width, 10),
            common_mastering_profile |-> row.common_mastering_profile]

generate_processing_recommendations(stats) ==
  LET lufs  == stats.avg_lufs
      dr    == stats.avg_dynamic_range
      bass  == stats.avg_bass_emphasis
      highs == stats.avg_high_emphasis
  IN  [compression |->
         [style |-> IF dr > 10000 THEN "gentle"
                    ELSE IF dr > 6000 THEN "moderate" ELSE "assertive",
          ratio |-> IF dr > 10000 THEN 1800 ELSE IF dr > 6000 THEN 2500 ELSE 3200],
       eq |->
         [bass_boost |-> Max(0, (bass - 300) * 3),
          high_boost |-> Max(0, (highs - 300) * 2),
          low_mid_cut |-> Max(0, (400 - bass) * 2)],
       limiting |->
         [ceiling |-> IF lufs > -12000 THEN -300 ELSE IF lufs > -16000 THEN -800 ELSE -1200,
          release |-> IF lufs > -12000 THEN 25 ELSE IF lufs > -16000 THEN 35 ELSE 50]]

\* TrainingDatabase.get_mastering_template, which
\* TrainingDataManager.get_genre_mastering_profile returns unchanged
get_mastering_template(stats_table, genre) ==
  LET insights == genre_insights(stats_table, genre)
  IN  IF "error" \in DOMAIN insights
      THEN insights
      ELSE [genre |-> genre,
            recommended_profile |-> insights.common_mastering_profile,
            target_parameters |->
              [lufs_target |-> insights.avg_lufs,
               dynamic_range_target |-> insights.avg_dynamic_range,
               bass_emphasis |-> insights.avg_bass_emphasis,
               high_emphasis |-> insights.avg_high_emphasis,
               stereo_width |-> insights.avg_stereo_width],
            processing_recommendations |-> generate_processing_recommendations(insights),
            reference_count |-> insights.track_count]

\* The genre_statistics row _update_genre_statistics writes
StatisticsRow(stats, common_profile) ==
  [track_count |-> stats.track_count,
   avg_lufs |-> stats.avg_lufs,
   avg_dynamic_range |-> stats.avg_dynamic_range,
   avg_bass_emphasis |-> stats.avg_bass_emphasis,
   avg_high_emphasis |-> stats.avg_high_emphasis,
   avg_stereo_width |-> stats.avg_stereo_width,
   common_mastering_profile |-> common_profile]

\* ------------------------------------------------------------ the inputs
Analysis(g, mp, l, dr, b, h, w) ==
  [genre |-> g, mastering_profile |-> mp, integrated_lufs |-> l,
   dynamic_range_db |-> dr, bass_emphasis |-> b, high_emphasis |-> h,
   stereo_width |-> w]

\* Tracks submitted while the corpus is being trained
SubmittedAnalyses ==
  { Analysis("trap", "modern_pop", -18000, 9000, 300, 300, 700),
    Analysis("Trap", "balanced_modern", -18000, 9000, 300, 300, 900),
    Analysis("xyz", "aggressive_urban", -5000, 3000, 200, 100, 300),
    Analysis("trap", "dynamic_preservation", -25000, 16000, 500, 500, 900) }

\* The calls whose result a caller keeps to compare a later call with
ProbeAnalyses ==
  { Analysis("trap", "modern_pop", -18000, 9000, 300, 300, 700),
    Analysis("xyz", "aggressive_urban", -5000, 3000, 200, 100, 300) }

\* ------------------------------------------------------------- the state
VARIABLES
  training_tracks,   \* table training_tracks: file_path -> row
  genre_statistics,  \* table genre_statistics: genre -> row
  stores,            \* number of store_track_analysis calls made
  load_pc,           \* engine construction: "new", "scan" or "done"
  genres,            \* _load_genre_templates: the fetched (genre, count) list
  load_i,            \* _load_genre_templates: position in that list
  templates,         \* _load_genre_templates: the local dict being built
  genre_templates,   \* engine.genre_templates
  ai_profiles,       \* engine.ai_profiles
  op,                \* the call that returned last
  analysis,          \* its argument
  result,            \* its return value
  remembered,        \* an earlier resolve call kept by its caller
  read_at,           \* history: which loader statements read a changed corpus
  calls              \* the calls in flight, one per request thread

vars == <<training_tracks, genre_statistics, stores, load_pc, genres, load_i,
          templates, genre_templates, ai_profiles, op, analysis, result,
          remembered, read_at, calls>>

None == [none |-> FALSE]

corpus_vars == <<training_tracks, genre_statistics, stores>>

loader_vars == <<load_pc, genres, load_i, templates, genre_templates, read_at>>

\* changed: the genres whose rows a store has altered since the loader's COUNT
\* statement; mixed: the genres whose AVG statement ran after such a store.
NothingRead == [changed |-> {}, mixed |-> {}]

\* Request threads of the server
Threads == {"t1", "t2"}

Idle == [pc |-> "idle"]

NoCalls == [t \in Threads |-> Idle]

\* __init__ has returned, with or without the database
Constructed == load_pc \in {"done", "failed"}

\* The genres whose rows differ once row old of a path is replaced by row new
Altered(old, new) ==
  IF old = new THEN {}
  ELSE {new.genre} \cup (IF old = NoRow THEN {} ELSE {old.genre})

Init ==
  /\ training_tracks = [p \in Paths |-> NoRow]
  /\ genre_statistics = [g \in GenreNames |-> NoRow]
  /\ stores = 0
  /\ load_pc = "new"
  /\ genres = <<>>
  /\ load_i = 1
  /\ templates = <<>>
  /\ genre_templates = <<>>
  /\ ai_profiles = InitialAiProfiles
  /\ op = "none"
  /\ analysis = None
  /\ result = None
  /\ remembered = None
  /\ read_at = NothingRead
  /\ calls = NoCalls

\* store_track_analysis(a) with a["file_path"] = p: INSERT OR REPLACE, commit,
\* then _update_genre_statistics for a's genre.  New paths are taken in order.
store_track_analysis(p, a) ==
  /\ stores < MaxStores
  /\ IF p = 1 THEN TRUE
     ELSE training_tracks[p] # NoRow \/ training_tracks[p - 1] # NoRow
  /\ LET tracks == [training_tracks EXCEPT ![p] = a]
     IN  /\ training_tracks' = tracks
         /\ \E common_profile \in MostCommonProfiles(tracks, a.genre) :
              genre_statistics' =
                [genre_statistics EXCEPT
                   ![a.genre] = StatisticsRow(GenreStats(tracks, a.genre), common_profile)]
  /\ stores' = stores + 1
  /\ op' = "store"
  /\ analysis' = None
  /\ result' = None
  /\ read_at' = [read_at EXCEPT
                   !.changed = IF load_pc = "scan"
                               THEN @ \cup Altered(training_tracks[p], a) ELSE {}]
  /\ UNCHANGED <<load_pc, genres, load_i, templates, genre_templates,
                 ai_profiles, remembered, calls>>

\* IntelligentMasteringEngine.__init__ enters _load_genre_templates: the
\* SELECT genre, COUNT(*) ... GROUP BY genre statement.
LoadBegin ==
  /\ load_pc = "new"
  /\ load_pc' = "scan"
  /\ genres' = GenreCounts(training_tracks)
  /\ load_i' = 1
  /\ templates' = <<>>
  /\ read_at' = NothingRead
  /\ UNCHANGED <<corpus_vars, genre_templates, ai_profiles, op, analysis, result,
                 remembered, calls>>

\* Positions of the fetched list not yet visited
Pending == {i \in load_i..Len(GenreOrder) : GenreOrder[i] \in DOMAIN genres}

\* One iteration of the loop: its own AVG statement, reading the table as it
\* is now.
LoadStep ==
  /\ load_pc = "scan"
  /\ Pending # {}
  /\ LET i == CHOOSE j \in Pending : \A k \in Pending : j <= k
         g == GenreOrder[i]
     IN  /\ templates' = LoadOneGenre(templates, g, genres[g], training_tracks)
         /\ load_i' = i + 1
         /\ read_at' = [read_at EXCEPT
                          !.mixed = IF g \in read_at.changed /\ g \in DOMAIN templates'
                                    THEN @ \cup {g} ELSE @]
  /\ UNCHANGED <<corpus_vars, load_pc, genres, genre_templates, ai_profiles,
                 op, analysis, result, remembered, calls>>

\* The loop is over: return templates, assigned to self.genre_templates.
LoadReturn ==
  /\ load_pc = "scan"
  /\ Pending = {}
  /\ load_pc' = "done"
  /\ genre_templates' = templates
  /\ op' = "init"
  /\ analysis' = None
  /\ result' = None
  /\ genres' = <<>>
  /\ load_i' = 1
  /\ templates' = <<>>
  /\ read_at' = [read_at EXCEPT !.changed = {}]
  /\ UNCHANGED <<corpus_vars, ai_profiles, remembered, calls>>

\* The catalog after a call that mutated the object ref names
Written(ref, label, value) ==
  IF ref \in DOMAIN ai_profiles THEN [ai_profiles EXCEPT ![label] = value] ELSE ai_profiles

\* _optimize_mastering_parameters(a)
optimize_mastering_parameters(a) ==
  /\ Constructed
  /\ LET label == BaseLabel(ai_profiles, a)
         value == Optimized(ai_profiles, genre_templates, a)
     IN  /\ result' = value
         /\ ai_profiles' = Written(copy_params(label), label, value)
  /\ op' = "resolve"
  /\ analysis' = a
  /\ UNCHANGED <<corpus_vars, loader_vars, remembered, calls>>

\* create_enhanced_preview(a), up to the parameters it compiles
create_enhanced_preview(a) ==
  /\ Constructed
  /\ LET label == BaseLabel(ai_profiles, a)
         value == PreviewEdits(Optimized(ai_profiles, genre_templates, a))
     IN  /\ result' = value
         /\ ai_profiles' = Written(copy_params(label), label, value)
  /\ op' = "preview"
  /\ analysis' = a
  /\ UNCHANGED <<corpus_vars, loader_vars, remembered, calls>>

\* The caller of a resolve keeps what it got.
Remember ==
  /\ op = "resolve"
  /\ analysis \in ProbeAnalyses
  /\ remembered' = [analysis |-> analysis, params |-> result]
  /\ op' = "kept"
  /\ UNCHANGED <<corpus_vars, loader_vars, ai_profiles, analysis, result, calls>>

\* TrainingDataManager.get_genre_mastering_profile(g)
get_genre_mastering_profile(g) ==
  /\ op' = "template"
  /\ analysis' = g
  /\ result' = get_mastering_template(genre_statistics, g)
  /\ UNCHANGED <<corpus_vars, loader_vars, ai_profiles, remembered, calls>>

\* analyze_and_master(a): resolve, compile, run ffmpeg (whose exit status is
\* ffmpeg's to decide), and build the returned dict.
analyze_and_master(a) ==
  /\ Constructed
  /\ LET label == BaseLabel(ai_profiles, a)
         optimal_params == Optimized(ai_profiles, genre_templates, a)
         filter_chain == build_intelligent_filter_chain(optimal_params)
     IN  /\ ai_profiles' = Written(copy_params(label), label, optimal_params)
         /\ \E processing_details \in
                 { [success |-> TRUE, filter_chain |-> filter_chain,
                    processing_approach |-> "intelligent_ai_driven",
                    optimization_applied |-> TRUE],
                   [success |-> FALSE, error |-> "Mastering failed"] } :
              result' = [success |-> processing_details.success,
                         analysis |-> a,
                         optimal_parameters |-> optimal_params,
                         processing_details |-> processing_details,
                         ai_decisions |-> explain_ai_decisions(a, optimal_params)]
  /\ op' = "master"
  /\ analysis' = a
  /\ UNCHANGED <<corpus_vars, loader_vars, remembered, calls>>

\* _load_genre_templates: a database statement raises (the connect or COUNT
\* statement, or the AVG statement of the genre the loop has come to); the
\* except branch logs it and the function returns templates as built so far.
LoadFail ==
  /\ \/ load_pc = "new"
     \/ /\ load_pc = "scan"
        /\ Pending # {}
        /\ LET i == CHOOSE j \in Pending : \A k \in Pending : j <= k
           IN  genres[GenreOrder[i]] >= MinReferences
  /\ load_pc' = "failed"
  /\ genre_templates' = templates
  /\ op' = "init"
  /\ analysis' = None
  /\ result' = None
  /\ genres' = <<>>
  /\ load_i' = 1
  /\ templates' = <<>>
  /\ read_at' = [read_at EXCEPT !.changed = {}]
  /\ UNCHANGED <<corpus_vars, ai_profiles, remembered, calls>>

\* ---- one call, statement by statement, on request thread t
\* The MasteringParameters object thread t's params variable refers to
Object(t) ==
  IF calls[t].ref \in DOMAIN ai_profiles THEN ai_profiles[calls[t].ref] ELSE calls[t].params

\* Thread t's object becomes value and t moves on to pc
Mutate(t, value, pc) ==
  /\ calls' = [calls EXCEPT ![t].params = value, ![t].pc = pc]
  /\ ai_profiles' = Written(calls[t].ref, calls[t].ref, value)

\* Entry and base selection: params = self._copy_params(self.ai_profiles[...])
CallBegin(t, kind, a) ==
  /\ Constructed
  /\ calls[t].pc = "idle"
  /\ LET label == BaseLabel(ai_profiles, a)
     IN  calls' = [calls EXCEPT ![t] =
                     [pc |-> "copied", kind |-> kind, analysis |-> a,
                      ref |-> copy_params(label), params |-> ai_profiles[label]]]
  /\ UNCHANGED <<corpus_vars, loader_vars, ai_profiles, op, analysis, result, remembered>>

\* if genre in self.genre_templates: params = self._apply_genre_template(...)
CallGenre(t) ==
  /\ calls[t].pc = "copied"
  /\ LET genre == Lower(Get(calls[t].analysis, "genre", ""))
     IN  Mutate(t, IF genre \in DOMAIN genre_templates
                   THEN apply_genre_template(Object(t), genre_templates[genre])
                   ELSE Object(t),
                "templated")
  /\ UNCHANGED <<corpus_vars, loader_vars, op, analysis, result, remembered>>

\* params = self._apply_track_specific_optimizations(params, analysis)
CallTrack(t) ==
  /\ calls[t].pc = "templated"
  /\ Mutate(t, apply_track_specific_optimizations(Object(t), calls[t].analysis), "optimized")
  /\ UNCHANGED <<corpus_vars, loader_vars, op, analysis, result, remembered>>

\* create_enhanced_preview's own edits of the object it got back
CallPreviewEdits(t) ==
  /\ calls[t].pc = "optimized"
  /\ calls[t].kind = "preview"
  /\ Mutate(t, PreviewEdits(Object(t)), "edited")
  /\ UNCHANGED <<corpus_vars, loader_vars, op, analysis, result, remembered>>

\* The call hands its parameters on (to its caller, or to the chain builder)
CallReturn(t) ==
  /\ \/ calls[t].pc = "optimized" /\ calls[t].kind = "resolve"
     \/ calls[t].pc = "edited"
  /\ calls' = [calls EXCEPT ![t].params = Object(t), ![t].pc = "returned"]
  /\ UNCHANGED <<corpus_vars, loader_vars, ai_profiles, op, analysis, result, remembered>>

\* The request is over; the thread takes the next one
CallEnd(t) ==
  /\ calls[t].pc = "returned"
  /\ calls' = [calls EXCEPT ![t] = Idle]
  /\ UNCHANGED <<corpus_vars, loader_vars, ai_profiles, op, analysis, result, remembered>>

Next ==
  \/ \E p \in Paths, a \in TrackKinds : store_track_analysis(p, a)
  \/ LoadBegin
  \/ LoadStep
  \/ LoadReturn
  \/ \E a \in SubmittedAnalyses : optimize_mastering_parameters(a)
  \/ \E a \in SubmittedAnalyses : create_enhanced_preview(a)
  \/ Remember

Spec == Init /\ [][Next]_vars

\* The training side alone: stores and template queries, no engine.
NextCorpus ==
  \/ \E p \in Paths, a \in LabelledKinds : store_track_analysis(p, a)
  \/ \E g \in GenreNames : get_genre_mastering_profile(g)

SpecCorpus == Init /\ [][NextCorpus]_vars

\* ------------------------------------------- resolve on a trained engine
\* An engine constructed over a corpus nobody is writing to, then one resolve
\* call per behaviour, its analysis drawn from the whole grid of measurements.
ReferenceKinds ==
  TrackKinds \cup
  { Sample("trap", -3000, 20000, 1000, 1000, 1000, "modern_pop"),
    Sample("trap", -30000, 2000, 0, 0, 0, "dynamic_preservation") }

UniformCorpus(kind) ==
  [p \in Paths |-> IF p <= MinReferences THEN kind ELSE NoRow]

\* Three rows filed under "trap" and two under "Trap"
MixedCaseCorpus ==
  [p \in Paths |->
     IF p <= 3 THEN Sample("trap", -6000, 6000, 500, 300, 700, "modern_pop")
     ELSE IF p <= MinReferences THEN Sample("Trap", -10000, 8000, 400, 500, 900, "modern_pop")
     ELSE NoRow]

\* One row short of the threshold, all filed under "trap"
BelowThresholdCorpus ==
  [p \in Paths |->
     IF p < MinReferences THEN Sample("trap", -6000, 6000, 500, 300, 700, "modern_pop")
     ELSE NoRow]

PreparedCorpora ==
  {[p \in Paths |-> NoRow], MixedCaseCorpus, BelowThresholdCorpus}
    \cup {UniformCorpus(k) : k \in ReferenceKinds}

StoredRows(tracks) == {p \in DOMAIN tracks : tracks[p] # NoRow}

\* genre_statistics after the stores that built tracks, none of them a re-store
StatisticsAfter(tracks) ==
  [g \in GenreNames |->
     IF RowsOf(tracks, g) = {} THEN NoRow
     ELSE StatisticsRow(GenreStats(tracks, g),
                        CHOOSE mp \in MostCommonProfiles(tracks, g) : TRUE)]

\* An analysis dict that carries no "mastering_profile" entry
WithoutProfile(a) == [k \in DOMAIN a \ {"mastering_profile"} |-> a[k]]

LabelledAnalyses ==
  { Analysis(g, mp, l, dr, b, h, w) :
      g \in GenreNames,
      mp \in ProfileNames \cup {"balanced_modern"},
      l \in {-25000, -20000, -18000, -12000, -11500, -5000, 0},
      dr \in {3000, 4000, 9000, 15000, 16000},
      b \in {0, 300, 1000},
      h \in {0, 300, 1000},
      w \in {0, 700, 1000} }

\* Every labelled analysis, and the modern_pop ones once more without a label
AllAnalyses ==
  LabelledAnalyses \cup
  { WithoutProfile(a) : a \in {b \in LabelledAnalyses : b.mastering_profile = "modern_pop"} }

InitResolve ==
  /\ training_tracks \in PreparedCorpora
  /\ genre_statistics = StatisticsAfter(training_tracks)
  /\ stores = Cardinality(StoredRows(training_tracks))
  /\ load_pc = "done"
  /\ genres = <<>>
  /\ load_i = 1
  /\ templates = <<>>
  /\ genre_templates = load_genre_templates(training_tracks)
  /\ ai_profiles = InitialAiProfiles
  /\ op = "call"
  /\ analysis \in AllAnalyses
  /\ result = None
  /\ remembered = None
  /\ read_at = NothingRead
  /\ calls = NoCalls

\* analyze_and_master step 2 on the submitted analysis
ResolveSubmitted ==
  /\ op = "call"
  /\ optimize_mastering_parameters(analysis)

SpecResolve == InitResolve /\ [][ResolveSubmitted]_vars

\* ------------------------------------------------- serving on a trained engine
\* The engine of one server process, constructed over a corpus nobody is
\* writing to, serving resolve and preview calls in any order.
ServedAnalyses ==
  SubmittedAnalyses \cup
  { Analysis(g, mp, l, dr, 200, 100, w) :
      g \in {"trap", "xyz"},
      mp \in {"modern_pop", "dynamic_preservation", "balanced_modern"},
      l \in {-18000, -5000},
      dr \in {3000, 16000},
      w \in {300, 900} }

InitEngine ==
  /\ training_tracks \in PreparedCorpora
  /\ genre_statistics = StatisticsAfter(training_tracks)
  /\ stores = Cardinality(StoredRows(training_tracks))
  /\ load_pc = "done"
  /\ genres = <<>>
  /\ load_i = 1
  /\ templates = <<>>
  /\ genre_templates = load_genre_templates(training_tracks)
  /\ ai_profiles = InitialAiProfiles
  /\ op = "init"
  /\ analysis = None
  /\ result = None
  /\ remembered = None
  /\ read_at = NothingRead
  /\ calls = NoCalls

NextEngine ==
  \/ \E a \in ServedAnalyses : optimize_mastering_parameters(a)
  \/ \E a \in ServedAnalyses : create_enhanced_preview(a)
  \/ Remember

SpecEngine == InitEngine /\ [][NextEngine]_vars

\* ------------------------------------------------ one mastering request
\* A trained engine and the analysis of the file it is asked to master
InitMaster ==
  /\ training_tracks \in PreparedCorpora
  /\ genre_statistics = StatisticsAfter(training_tracks)
  /\ stores = Cardinality(StoredRows(training_tracks))
  /\ load_pc = "done"
  /\ genres = <<>>
  /\ load_i = 1
  /\ templates = <<>>
  /\ genre_templates = load_genre_templates(training_tracks)
  /\ ai_profiles = InitialAiProfiles
  /\ op = "call"
  /\ analysis \in ServedAnalyses
  /\ result = None
  /\ remembered = None
  /\ read_at = NothingRead
  /\ calls = NoCalls

\* analyze_and_master on the analysis the analyzer produced
MasterSubmitted ==
  /\ op = "call"
  /\ analyze_and_master(analysis)

SpecMaster == InitMaster /\ [][MasterSubmitted]_vars

\* ------------------------------------------ construction without a database
\* Two genres with enough references each, filed under rowids 1..10
TwoGenreCorpus ==
  [p \in 1..(2 * MinReferences) |->
     IF p <= MinReferences
     THEN Sample("trap", -6000, 6000, 500, 300, 700, "modern_pop")
     ELSE Sample("xyz", -14000, 11000, 200, 300, 600, "modern_pop")]

OutageCorpora ==
  { TwoGenreCorpus,
    [p \in Paths |-> NoRow],
    UniformCorpus(Sample("trap", -6000, 6000, 500, 300, 700, "modern_pop")) }

\* An engine about to be constructed over a corpus nobody is writing to
InitOutage ==
  /\ training_tracks \in OutageCorpora
  /\ genre_statistics = StatisticsAfter(training_tracks)
  /\ stores = Cardinality(StoredRows(training_tracks))
  /\ load_pc = "new"
  /\ genres = <<>>
  /\ load_i = 1
  /\ templates = <<>>
  /\ genre_templates = <<>>
  /\ ai_profiles = InitialAiProfiles
  /\ op = "none"
  /\ analysis = None
  /\ result = None
  /\ remembered = None
  /\ read_at = NothingRead
  /\ calls = NoCalls

\* Construction, during which any database statement may raise, then resolves
NextOutage ==
  \/ LoadBegin
  \/ LoadStep
  \/ LoadFail
  \/ LoadReturn
  \/ \E a \in ServedAnalyses : optimize_mastering_parameters(a)

SpecOutage == InitOutage /\ [][NextOutage]_vars

\* ------------------------------------------------- the chain builder alone
\* Measurements that bring the resolved settings to the builder's thresholds
CompileAnalyses ==
  { Analysis(g, mp, l, 9000, 300, h, w) :
      g \in {"trap", "xyz"},
      mp \in ProfileNames,
      l \in {-18000, -5000},
      h \in {100, 500},
      w \in {500, 900} }

\* What resolve and the preview hand to the builder, with and without a
\* "trap" template loaded
ResolvedSets ==
  LET loaded == { <<>>, load_genre_templates(
                          UniformCorpus(Sample("trap", -6000, 6000, 500, 300, 700, "modern_pop"))) }
      optimal == { Optimized(InitialAiProfiles, t, a) : t \in loaded, a \in CompileAnalyses }
  IN  optimal \cup { PreviewEdits(params) : params \in optimal }

\* The same sets with an exciter amount at zero
CompileInputs ==
  ResolvedSets
    \cup { [params EXCEPT !.saturation_amount = 0] : params \in ResolvedSets }
    \cup { [params EXCEPT !.harmonic_enhancement = 0] : params \in ResolvedSets }

InitCompile ==
  /\ training_tracks = [p \in Paths |-> NoRow]
  /\ genre_statistics = StatisticsAfter(training_tracks)
  /\ stores = 0
  /\ load_pc = "done"
  /\ genres = <<>>
  /\ load_i = 1
  /\ templates = <<>>
  /\ genre_templates = <<>>
  /\ ai_profiles = InitialAiProfiles
  /\ op = "call"
  /\ analysis \in CompileInputs
  /\ result = None
  /\ remembered = None
  /\ read_at = NothingRead
  /\ calls = NoCalls

\* filter_chain = self._build_intelligent_filter_chain(params)
CompileSubmitted ==
  /\ op = "call"
  /\ op' = "compile"
  /\ result' = [filter_chain |-> build_intelligent_filter_chain(analysis)]
  /\ UNCHANGED <<corpus_vars, loader_vars, ai_profiles, analysis, remembered, calls>>

SpecCompile == InitCompile /\ [][CompileSubmitted]_vars

\* ------------------------------------------------ two request threads
InitThreads ==
  /\ training_tracks \in
       { [p \in Paths |-> NoRow],
         UniformCorpus(Sample("trap", -6000, 6000, 500, 300, 700, "modern_pop")) }
  /\ genre_statistics = StatisticsAfter(training_tracks)
  /\ stores = Cardinality(StoredRows(training_tracks))
  /\ load_pc = "done"
  /\ genres = <<>>
  /\ load_i = 1
  /\ templates = <<>>
  /\ genre_templates = load_genre_templates(training_tracks)
  /\ ai_profiles = InitialAiProfiles
  /\ op = "init"
  /\ analysis = None
  /\ result = None
  /\ remembered = None
  /\ read_at = NothingRead
  /\ calls = NoCalls

\* Resolve and preview calls of different tracks, their statements interleaved
NextThreads ==
  \E t \in Threads :
    \/ \E a \in SubmittedAnalyses : CallBegin(t, "resolve", a)
    \/ \E a \in SubmittedAnalyses : CallBegin(t, "preview", a)
    \/ CallGenre(t)
    \/ CallTrack(t)
    \/ CallPreviewEdits(t)
    \/ CallReturn(t)
    \/ CallEnd(t)

SpecThreads == InitThreads /\ [][NextThreads]_vars

\* ----------------------------------------------------- powerful mastering
\* genre_targets of master_audio_genre_optimized
genre_targets ==
  [g \in {"trap", "hiphop", "drill", "amapiano", "pop", "dancehall", "afro",
          "rnb", "slow song", "ballad", "general"} |->
     IF g \in {"trap", "dancehall", "afro"} THEN -10500
     ELSE IF g \in {"drill", "amapiano"} THEN -10000
     ELSE IF g = "rnb" THEN -12000
     ELSE IF g \in {"slow song", "ballad"} THEN -13000
     ELSE -11000]

\* What subprocess.run(cmd, ..., timeout=300) can do: hand back a completed
\* process with ffmpeg's return code (negative when a signal ended it), raise
\* TimeoutExpired, or raise an OSError when ffmpeg cannot be started.
Exited(returncode) == [kind |-> "exit", returncode |-> returncode]

Raised(exception) == [kind |-> "raise", exception |-> exception]

FfmpegOutcomes ==
  {Exited(rc) : rc \in {0, 1, 255, -9}}
    \cup {Raised(e) : e \in {"TimeoutExpired", "FileNotFoundError", "PermissionError"}}

\* The classes each of those exceptions is an instance of
ExceptionBases ==
  [e \in {"TimeoutExpired", "FileNotFoundError", "PermissionError"} |->
     IF e = "TimeoutExpired" THEN {"TimeoutExpired", "SubprocessError", "Exception"}
     ELSE {e, "OSError", "Exception"}]

NoException == "none"

\* An except clause naming subprocess.SubprocessError only
CaughtSubprocessOnly(exception) == "SubprocessError" \in ExceptionBases[exception]

\* except Exception as e
Caught(exception) == "Exception" \in ExceptionBases[exception]

\* master_audio_powerful(input_path, output_path, target_lufs) when its ffmpeg
\* run ends as given: the value returned or the exception that leaves the
\* function, and the loudness written into the loudnorm filter.
master_audio_powerful(target_lufs, ffmpeg) ==
  IF ffmpeg.kind = "exit"
  THEN [value |-> ffmpeg.returncode = 0, raised |-> NoException, loudnorm_I |-> target_lufs]
  ELSE IF Caught(ffmpeg.exception)
  THEN [value |-> FALSE, raised |-> NoException, loudnorm_I |-> target_lufs]
  ELSE [value |-> FALSE, raised |-> ffmpeg.exception, loudnorm_I |-> target_lufs]

\* master_audio_genre_optimized(input_path, output_path, genre)
master_audio_genre_optimized(genre, ffmpeg) ==
  LET target_lufs == Get(genre_targets, Lower(genre), -11000)
  IN  master_audio_powerful(target_lufs, ffmpeg)

\* Genre arguments: every key, some of them in other letter cases, and names
\* the table does not have
RequestedGenres ==
  DOMAIN genre_targets \cup {"Trap", "TRAP", "Pop", "RnB", "Slow Song", "xyz", ""}

\* One call per behaviour: by genre, or directly with a target as
\* test_mastering.py does
PowerfulCalls ==
  {[entry |-> "genre_optimized", genre |-> g, ffmpeg |-> o] :
     g \in RequestedGenres, o \in FfmpegOutcomes}
    \cup {[entry |-> "powerful", target_lufs |-> t, ffmpeg |-> o] :
            t \in {-11000, -14000, -9000}, o \in FfmpegOutcomes}

InitPowerful ==
  /\ training_tracks = [p \in Paths |-> NoRow]
  /\ genre_statistics = StatisticsAfter(training_tracks)
  /\ stores = 0
  /\ load_pc = "done"
  /\ genres = <<>>
  /\ load_i = 1
  /\ templates = <<>>
  /\ genre_templates = <<>>
  /\ ai_profiles = InitialAiProfiles
  /\ op = "call"
  /\ analysis \in PowerfulCalls
  /\ result = None
  /\ remembered = None
  /\ read_at = NothingRead
  /\ calls = NoCalls

GenreOptimizedSubmitted ==
  /\ op = "call"
  /\ analysis.entry = "genre_optimized"
  /\ op' = "genre_optimized"
  /\ result' = master_audio_genre_optimized(analysis.genre, analysis.ffmpeg)
  /\ UNCHANGED <<corpus_vars, loader_vars, ai_profiles, analysis, remembered, calls>>

PowerfulSubmitted ==
  /\ op = "call"
  /\ analysis.entry = "powerful"
  /\ op' = "powerful"
  /\ result' = master_audio_powerful(analysis.target_lufs, analysis.ffmpeg)
  /\ UNCHANGED <<corpus_vars, loader_vars, ai_profiles, analysis, remembered, calls>>

NextPowerful ==
  \/ GenreOptimizedSubmitted
  \/ PowerfulSubmitted

SpecPowerful == InitPowerful /\ [][NextPowerful]_vars

\* ------------------------------------------------ two concurrent stores
\* Two callers of store_track_analysis, each on the connection its call opens,
\* each storing one new track into a corpus whose statistics are up to date.
\* A call is four statements: INSERT OR REPLACE with its commit, the COUNT/AVG
\* SELECT, the most-common-profile SELECT, and the INSERT OR REPLACE into
\* genre_statistics that the end of the with block commits.  SQLite runs each
\* statement atomically; between two statements of one call no lock is held.
WriterKinds ==
  { Sample("trap", -6000, 6000, 500, 300, 700, "modern_pop"),
    Sample("trap", -11000, 12000, 300, 300, 1200, "aggressive_urban"),
    Sample("xyz", -14000, 11000, 200, 300, 600, "modern_pop") }

\* The corpora the two calls start from: nothing stored, or the first few
\* paths filled with one kind
WriterCorpora ==
  { [p \in Paths |-> IF p <= n THEN k ELSE NoRow] :
      n \in 0..(MaxTracks - Cardinality(Threads)), k \in WriterKinds }

InitWriters ==
  /\ training_tracks \in WriterCorpora
  /\ genre_statistics = StatisticsAfter(training_tracks)
  /\ stores = Cardinality(StoredRows(training_tracks))
  /\ load_pc = "new"
  /\ genres = <<>>
  /\ load_i = 1
  /\ templates = <<>>
  /\ genre_templates = <<>>
  /\ ai_profiles = InitialAiProfiles
  /\ op = "none"
  /\ analysis = None
  /\ result = None
  /\ remembered = None
  /\ read_at = NothingRead
  /\ calls = NoCalls

\* The file_path of a track not stored yet
NewPath == CHOOSE p \in Paths : training_tracks[p] = NoRow /\ \A q \in 1..(p - 1) : training_tracks[q] # NoRow

\* INSERT OR REPLACE INTO training_tracks ...; conn.commit()
StoreInsert(t, a) ==
  /\ calls[t].pc = "idle"
  /\ \E p \in Paths : training_tracks[p] = NoRow
  /\ training_tracks' = [training_tracks EXCEPT ![NewPath] = a]
  /\ stores' = stores + 1
  /\ calls' = [calls EXCEPT ![t] = [pc |-> "inserted", genre |-> a.genre]]
  /\ UNCHANGED <<genre_statistics, loader_vars, ai_profiles, op, analysis, result, remembered>>

\* stats = SELECT COUNT(*), AVG(...) FROM training_tracks WHERE genre = ?
StoreReadStatistics(t) ==
  /\ calls[t].pc = "inserted"
  /\ calls' = [calls EXCEPT ![t] =
                 [pc |-> "counted", genre |-> calls[t].genre,
                  stats |-> GenreStats(training_tracks, calls[t].genre)]]
  /\ UNCHANGED <<corpus_vars, loader_vars, ai_profiles, op, analysis, result, remembered>>

\* profile_result = SELECT mastering_profile, COUNT(*) ... ORDER BY count DESC LIMIT 1
StoreReadProfile(t) ==
  /\ calls[t].pc = "counted"
  /\ \E common_profile \in MostCommonProfiles(training_tracks, calls[t].genre) :
       calls' = [calls EXCEPT ![t] =
                   [pc |-> "profiled", genre |-> calls[t].genre,
                    stats |-> calls[t].stats, common_profile |-> common_profile]]
  /\ UNCHANGED <<corpus_vars, loader_vars, ai_profiles, op, analysis, result, remembered>>

\* INSERT OR REPLACE INTO genre_statistics ...; return track_id (the with
\* block commits)
StoreWriteStatistics(t) ==
  /\ calls[t].pc = "profiled"
  /\ genre_statistics' =
       [genre_statistics EXCEPT
          ![calls[t].genre] = StatisticsRow(calls[t].stats, calls[t].common_profile)]
  /\ calls' = [calls EXCEPT ![t] = [pc |-> "returned", genre |-> calls[t].genre]]
  /\ UNCHANGED <<training_tracks, stores, loader_vars, ai_profiles, op, analysis, result, remembered>>

NextWriters ==
  \/ \E t \in Threads, a \in WriterKinds : StoreInsert(t, a)
  \/ \E t \in Threads : StoreReadStatistics(t)
  \/ \E t \in Threads : StoreReadProfile(t)
  \/ \E t \in Threads : StoreWriteStatistics(t)

SpecWriters == InitWriters /\ [][NextWriters]_vars

\* ------------------------------------------------------- the HTTP service
\* The attributes an IntelligentMasteringEngine instance has: the methods its
\* class defines and the fields __init__ sets.
EngineAttributes ==
  {"__init__", "_load_genre_templates", "_initialize_ai_profiles",
   "analyze_and_master", "_optimize_mastering_parameters", "_apply_genre_template",
   "_apply_track_specific_optimizations", "_apply_intelligent_mastering",
   "_build_intelligent_filter_chain", "_explain_ai_decisions", "_copy_params",
   "create_enhanced_preview",
   "analyzer", "data_manager", "genre_templates", "ai_profiles"}

\* ai_engine.<name>(...): looking up a name the instance does not have raises
\* AttributeError before anything is called.
EngineCall(name) ==
  IF name \in EngineAttributes
  THEN [raised |-> NoException, value |-> [called |-> name]]
  ELSE [raised |-> "AttributeError"]

\* DEV_MODE = not bool(STRIPE_SECRET_KEY)
DEV_MODE(stripe_secret_key) == stripe_secret_key = ""

\* What stripe.checkout.Session.retrieve(session_id) finds: no such session
\* (it raises; also for session_id None), a one-time payment with its
\* payment_status, or a subscription checkout with its subscription's status
\* ("none" when no subscription object is attached).
CheckoutSessions ==
  {[mode |-> "missing"], [mode |-> "setup"]}
    \cup {[mode |-> "payment", payment_status |-> ps] :
            ps \in {"paid", "unpaid", "no_payment_required"}}
    \cup {[mode |-> "subscription", subscription |-> st] :
            st \in {"none", "active", "trialing", "canceled", "past_due"}}

\* payments.verify_session_paid
verify_session_paid(session) ==
  IF session.mode = "missing" THEN FALSE
  ELSE IF session.mode = "payment" THEN session.payment_status = "paid"
  ELSE IF session.mode = "subscription" /\ session.subscription # "none"
  THEN session.subscription \in {"active", "trialing"}
  ELSE FALSE

\* What Stripe holds for the request's email: the statuses of the
\* subscriptions of the customer found for it; "no email" and "no customer"
\* have none.
Customers ==
  {{}, {"canceled"}, {"active"}, {"canceled", "trialing"}}

\* payments.is_active_subscriber
is_active_subscriber(subscriptions) ==
  \E status \in subscriptions : status \in {"active", "trialing"}

\* run_ffmpeg(args): raises RuntimeError unless ffmpeg exits with 0
run_ffmpeg(returncode) ==
  IF returncode = 0 THEN [raised |-> NoException] ELSE [raised |-> "RuntimeError"]

\* make_master(input_path, out_path, target_platform): the dict it returns, or
\* the exception that leaves it
make_master(returncode) ==
  LET call == EngineCall("intelligent_master")
  IN  IF call.raised = NoException
      THEN [raised |-> NoException,
            value |-> [success |-> TRUE, ai_powered |-> TRUE]]
      ELSE IF run_ffmpeg(returncode).raised = NoException
      THEN [raised |-> NoException,
            value |-> [success |-> TRUE, fallback |-> TRUE, error |-> call.raised]]
      ELSE [raised |-> run_ffmpeg(returncode).raised]

\* POST /process-full: the JSON it answers with
process_full(request) ==
  LET mastering == make_master(request.returncode)
      mastering_result == mastering.value
      url == [download_url |-> "/files/outputs/job.mp3"]
  IN  IF mastering.raised # NoException
      THEN [status_code |-> 500, content |-> [error |-> "process_failed"]]
      ELSE IF ~Get(mastering_result, "fallback", FALSE)
              /\ Get(mastering_result, "ai_powered", FALSE)
      THEN [status_code |-> 200,
            content |-> [download_url |-> url.download_url,
                         ai_mastering_info |-> [ai_powered |-> TRUE]]]
      ELSE IF ~Get(mastering_result, "fallback", FALSE)
      THEN [status_code |-> 200,
            content |-> [download_url |-> url.download_url,
                         mastering_info |-> [target_platform |-> request.target_platform]]]
      ELSE [status_code |-> 200,
            content |-> [download_url |-> url.download_url,
                         mastering_info |->
                           [note |-> mastering_result.error,
                            target_platform |-> request.target_platform]]]

\* make_preview(input_path, out_path): process_file_to_preview_full, and the
\* simple ffmpeg run when that raises
make_preview(request) ==
  IF request.preview_returncode = 0 THEN [raised |-> NoException]
  ELSE run_ffmpeg(request.returncode)

\* POST /preview: the analysis it reports from, and the JSON it answers with
preview(request) ==
  LET call == EngineCall("analyze_audio")
      analysis_used ==
        IF call.raised = NoException THEN call.value
        ELSE [duration |-> 180000, genre_classification |-> "general",
              mastering_profile |-> "balanced", analysis_error |-> call.raised]
  IN  IF make_preview(request).raised # NoException
      THEN [status_code |-> 500, content |-> [error |-> "preview_failed"],
            analysis |-> analysis_used]
      ELSE [status_code |-> 200,
            content |-> [preview_url |-> "/files/previews/job.mp3",
                         audio_analysis |->
                           [duration_seconds |-> Get(analysis_used, "duration", 180000),
                            detected_genre |-> Get(analysis_used, "genre_classification", "general"),
                            mastering_profile |-> Get(analysis_used, "mastering_profile", "balanced"),
                            dynamic_range |-> Get(analysis_used, "dynamic_range", 8000),
                            current_loudness |-> Get(analysis_used, "integrated_lufs", -18000)]],
            analysis |-> analysis_used]

\* The requests one server process can receive, with the Stripe key it was
\* started with and what ffmpeg will do
ProcessFullRequests ==
  {[endpoint |-> "process-full", stripe_secret_key |-> key, session |-> session,
    subscriptions |-> subs, target_platform |-> "streaming_standard",
    returncode |-> rc] :
     key \in {"", "sk_live"}, session \in CheckoutSessions, subs \in Customers,
     rc \in {0, 1}}

PreviewRequests ==
  {[endpoint |-> "preview", stripe_secret_key |-> key,
    preview_returncode |-> prc, returncode |-> rc] :
     key \in {"", "sk_live"}, prc \in {0, 1}, rc \in {0, 1}}

InitApp ==
  /\ training_tracks = [p \in Paths |-> NoRow]
  /\ genre_statistics = StatisticsAfter(training_tracks)
  /\ stores = 0
  /\ load_pc = "done"
  /\ genres = <<>>
  /\ load_i = 1
  /\ templates = <<>>
  /\ genre_templates = <<>>
  /\ ai_profiles = InitialAiProfiles
  /\ op = "call"
  /\ analysis \in ProcessFullRequests \cup PreviewRequests
  /\ result = None
  /\ remembered = None
  /\ read_at = NothingRead
  /\ calls = NoCalls

ProcessFullSubmitted ==
  /\ op = "call"
  /\ analysis.endpoint = "process-full"
  /\ op' = "process-full"
  /\ result' = process_full(analysis)
  /\ UNCHANGED <<corpus_vars, loader_vars, ai_profiles, analysis, remembered, calls>>

PreviewSubmitted ==
  /\ op = "call"
  /\ analysis.endpoint = "preview"
  /\ op' = "preview"
  /\ result' = preview(analysis)
  /\ UNCHANGED <<corpus_vars, loader_vars, ai_profiles, analysis, remembered, calls>>

NextApp ==
  \/ ProcessFullSubmitted
  \/ PreviewSubmitted

SpecApp == InitApp /\ [][NextApp]_vars

\* ================================================================ claims
Ratios(params) ==
  {params.multiband_compression[b].ratio : b \in MbBandNames}
    \cup {params.bus_compression.ratio}

\* The profile the last resolve started from, as the catalog was at start
BaseOfCall == InitialAiProfiles[BaseLabel(InitialAiProfiles, analysis)]

\* The settings of a ParameterSet that neither overlay pass writes: filter
\* cutoffs, band frequencies and Q, the mid and high-mid gains, compressor
\* timings, bus compression, saturation, harmonic enhancement, limiter release
Settings(params) ==
  [highpass_freq |-> params.highpass_freq,
   lowpass_freq |-> params.lowpass_freq,
   eq_freq |-> [b \in EqBandNames |-> params.eq_bands[b].freq],
   eq_q |-> [b \in EqBandNames |-> params.eq_bands[b].q],
   mid_gain |-> params.eq_bands["mid"].gain,
   high_mid_gain |-> params.eq_bands["high_mid"].gain,
   mb_attack |-> [b \in MbBandNames |-> params.multiband_compression[b].attack],
   mb_release |-> [b \in MbBandNames |-> params.multiband_compression[b].release],
   bus_compression |-> params.bus_compression,
   saturation_amount |-> params.saturation_amount,
   harmonic_enhancement |-> params.harmonic_enhancement,
   limiter_release |-> params.limiter_release]

\* The catalog label the hint of the last call stands for: the hint itself
\* when the catalog has it, the default profile otherwise
LabelOfCall ==
  IF "mastering_profile" \in DOMAIN analysis /\ analysis.mastering_profile \in ProfileNames
  THEN analysis.mastering_profile
  ELSE "modern_pop"

\* C1: the target LUFS of every ParameterSet resolve returns lies in
\* [-18, -8].
C1_TargetLufsInRange ==
  op = "resolve" => (result.target_lufs >= -18000 /\ result.target_lufs <= -8000)

\* C2: the stereo width factor of every ParameterSet resolve returns lies in
\* [0.8, 1.5].
C2_StereoWidthInRange ==
  op = "resolve" => (result.stereo_width >= 800 /\ result.stereo_width <= 1500)

\* C3: every compression ratio (three multiband bands and the bus compressor)
\* of every ParameterSet resolve returns is at least 1.0.
C3_RatiosAtLeastOne ==
  op = "resolve" => \A r \in Ratios(result) : r >= 1000

\* C3 witness: a resolve of a track with dynamic range above 15 dB whose
\* multiband ratios came out below those of the profile it started from.
C3_Witness ==
  /\ op = "resolve"
  /\ analysis.dynamic_range_db > 15000
  /\ \A b \in MbBandNames :
       result.multiband_compression[b].ratio
         < BaseOfCall.multiband_compression[b].ratio

C5_Deterministic ==
  (op = "resolve" /\ remembered # None /\ remembered.analysis = analysis)
    => result = remembered.params

\* C5 witness: a repeated resolve, on an engine holding a template, of an
\* analysis whose result differs from the base profile.
C5_Witness ==
  /\ op = "resolve"
  /\ remembered # None
  /\ remembered.analysis = analysis
  /\ genre_templates # <<>>
  /\ result # BaseOfCall
  /\ training_tracks # [p \in Paths |-> NoRow]

\* C6: an operation that hands out a genre template yields one exactly for
\* the genres with at least 5 stored samples: the template query answers with a
\* template iff the genre has 5 or more rows, and every template the engine
\* loaded counts at least 5 references.
C6_TemplateThreshold ==
  /\ op = "template" =>
       (("error" \notin DOMAIN result)
          <=> Cardinality(RowsOf(training_tracks, analysis)) >= MinReferences)
  /\ \A g \in DOMAIN genre_templates :
       genre_templates[g].reference_count >= MinReferences

\* Rows whose genre equals g up to letter case
RowsOfAnyCase(tracks, g) ==
  {p \in StoredRows(tracks) : Lower(tracks[p].genre) = Lower(g)}

\* C7: genre matching is case-insensitive: when the rows whose genre equals
\* the hint up to letter case number 5 or more, resolve finds one template
\* that counts them all and applies it.
C7_CaseInsensitiveMatch ==
  (op = "resolve"
     /\ Cardinality(RowsOfAnyCase(training_tracks, analysis.genre)) >= MinReferences)
    => \E g \in DOMAIN genre_templates :
         /\ Lower(g) = Lower(analysis.genre)
         /\ genre_templates[g].reference_count
              = Cardinality(RowsOfAnyCase(training_tracks, analysis.genre))
         /\ result = apply_track_specific_optimizations(
                       apply_genre_template(BaseOfCall, genre_templates[g]), analysis)

\* Alphabetical order of the profile labels
LabelOrder == <<"aggressive_urban", "balanced_modern", "bass_heavy_modern",
                "dynamic_preservation", "log_drum_emphasis", "modern_pop",
                "smooth_vocal_focus">>

LabelRank(mp) == CHOOSE i \in 1..Len(LabelOrder) : LabelOrder[i] = mp

\* C8: the dominant base-profile label of a genre is the most frequent
\* mastering_profile among its stored tracks, the alphabetically first of them
\* when several tie (checked on every statistics row that is up to date).
C8_DominantProfileTie ==
  \A g \in GenreNames :
    (genre_statistics[g] # NoRow
       /\ genre_statistics[g].track_count = Cardinality(RowsOf(training_tracks, g)))
      => /\ genre_statistics[g].common_mastering_profile
              \in MostCommonProfiles(training_tracks, g)
         /\ \A mp \in MostCommonProfiles(training_tracks, g) :
              LabelRank(genre_statistics[g].common_mastering_profile) <= LabelRank(mp)

\* C9: a resolve uses the templates of the corpus as it is when the resolve
\* runs, never templates (or their absence) computed before a store.
C9_CacheInvalidation ==
  op = "resolve" =>
    result = Optimized(InitialAiProfiles, load_genre_templates(training_tracks), analysis)

\* C10: every template, while being built and once loaded, has its sample
\* count and its means read from one and the same corpus version.
C10_TemplateOneSnapshot ==
  \A g \in DOMAIN templates \cup DOMAIN genre_templates : g \notin read_at.mixed

\* C11: base selection never fails: for every profile hint, a label outside the
\* catalog and a missing label included, resolve returns a ParameterSet built
\* on a profile of the catalog, the hinted one when the catalog has it and the
\* default profile (modern_pop) otherwise.
C11_BaseSelectionNeverFails ==
  op = "resolve" =>
    /\ result # None
    /\ Settings(result) = Settings(InitialAiProfiles[LabelOfCall])

\* C11 witness: a resolve of an analysis that carries no profile label, built
\* on the default profile and changed by the overlays.
C11_Witness ==
  /\ op = "resolve"
  /\ "mastering_profile" \notin DOMAIN analysis
  /\ Settings(result) = Settings(InitialAiProfiles["modern_pop"])
  /\ result # InitialAiProfiles["modern_pop"]

\* C12: for a genre hint with no template (fewer than 5 stored rows match the
\* hint, letter case ignored), resolve returns the selected base profile with
\* only the track-specific overlay applied.
C12_NoTemplateFrame ==
  (op = "resolve"
     /\ Cardinality(RowsOfAnyCase(training_tracks, analysis.genre)) < MinReferences)
    => /\ result = apply_track_specific_optimizations(InitialAiProfiles[LabelOfCall], analysis)
       /\ Settings(result) = Settings(InitialAiProfiles[LabelOfCall])

\* C12 witness: a resolve for a genre one row short of the threshold on an
\* engine without a template for it, the track overlay having changed the base
\* profile.
C12_Witness ==
  /\ op = "resolve"
  /\ Cardinality(RowsOfAnyCase(training_tracks, analysis.genre)) = MinReferences - 1
  /\ result # InitialAiProfiles[LabelOfCall]
  /\ result.target_lufs # InitialAiProfiles[LabelOfCall].target_lufs

\* The fallback flags a returned dict carries, at its top level or inside its
\* ai_decisions or processing_details
FallbacksApplied(ret) ==
  Get(ret, "fallbacks_applied", {})
    \cup Get(ret.ai_decisions, "fallbacks_applied", {})
    \cup Get(ret.processing_details, "fallbacks_applied", {})

\* C13: every fallback resolve takes is returned alongside its result: the
\* dict analyze_and_master returns carries an UnknownGenre flag when the genre
\* hint has no template and an UnknownProfile flag when the profile hint is not
\* in the catalog.
C13_FallbacksReported ==
  op = "master" =>
    /\ (Lower(Get(analysis, "genre", "")) \notin DOMAIN genre_templates)
         => "UnknownGenre" \in FallbacksApplied(result)
    /\ (Get(analysis, "mastering_profile", "balanced_modern") \notin ProfileNames)
         => "UnknownProfile" \in FallbacksApplied(result)

\* C14: when a database statement failed during template loading, every later
\* resolve skips the genre overlay: its result is the base profile with the
\* track-specific overlay alone, whatever templates were built before the
\* failure.
C14_OutageSkipsGenreOverlay ==
  (op = "resolve" /\ load_pc = "failed")
    => result = apply_track_specific_optimizations(InitialAiProfiles[LabelOfCall], analysis)

\* The stage names in the order the chain is to have them
StageOrder ==
  <<"highpass", "lowpass", "saturation", "eq", "split", "low_filter", "low_dynamics",
    "mid_filter", "mid_dynamics", "high_filter", "high_dynamics", "merge", "stereo",
    "bus", "harmonic", "normalize", "limit">>

StageRank(stage) == CHOOSE i \in DOMAIN StageOrder : StageOrder[i] = stage

StagesOf(chain, stage) == {i \in DOMAIN chain : chain[i].stage = stage}

\* C15: the chain builder emits its stages in one fixed relative order
\* (highpass, lowpass, saturation, EQ bands, split with its branches and
\* merge, stereo width, bus dynamics, harmonic enhancement, normalize, limit);
\* highpass, lowpass, split, merge, bus dynamics, normalize and limit are
\* present exactly once and limit is last.
C15_FixedStageOrder ==
  op = "compile" =>
    LET chain == result.filter_chain
    IN  /\ \A i, j \in DOMAIN chain :
             i < j => \/ StageRank(chain[i].stage) < StageRank(chain[j].stage)
                      \/ chain[i].stage = "eq" /\ chain[j].stage = "eq"
        /\ \A stage \in {"highpass", "lowpass", "split", "merge", "bus", "normalize", "limit"} :
             Cardinality(StagesOf(chain, stage)) = 1
        /\ chain[Len(chain)].stage = "limit"
        /\ chain[Len(chain)].filter = "alimiter"
        /\ chain[Len(chain) - 1].filter = "loudnorm"

\* C15 witness: a compiled chain holding every optional stage, all 7 EQ bands
\* included.
C15_Witness ==
  /\ op = "compile"
  /\ \A stage \in {"saturation", "stereo", "harmonic"} :
       StagesOf(result.filter_chain, stage) # {}
  /\ Cardinality(StagesOf(result.filter_chain, "eq")) = Cardinality(EqBandNames)

\* The equalizer filters of the chain set to a band's frequency and gain
BandStages(chain, band_params) ==
  {i \in StagesOf(chain, "eq") :
     chain[i].args.f = band_params.freq /\ chain[i].args.g = band_params.gain}

\* C16: an EQ band whose gain magnitude is at most 0.1 dB has no stage in the
\* compiled chain, every band whose gain magnitude exceeds 0.1 dB has exactly
\* one, and the chain has no other equalizer stage.
C16_DeadZoneOmission ==
  op = "compile" =>
    LET chain == result.filter_chain
    IN  /\ \A b \in EqBandNames :
             Cardinality(BandStages(chain, analysis.eq_bands[b]))
               = IF Abs(analysis.eq_bands[b].gain) > 100 THEN 1 ELSE 0
        /\ Cardinality(StagesOf(chain, "eq"))
             = Cardinality({b \in EqBandNames : Abs(analysis.eq_bands[b].gain) > 100})

\* C16 witness: a compile of a ParameterSet with one band exactly 0.1 dB up,
\* left out, and another band further up, kept.
C16_Witness ==
  /\ op = "compile"
  /\ \E b \in EqBandNames :
       /\ analysis.eq_bands[b].gain = 100
       /\ BandStages(result.filter_chain, analysis.eq_bands[b]) = {}
  /\ \E b \in EqBandNames :
       /\ analysis.eq_bands[b].gain > 100
       /\ BandStages(result.filter_chain, analysis.eq_bands[b]) # {}

\* C17: the saturation stage is in the compiled chain iff saturation_amount
\* > 0, the stereo-width stage iff stereo_width differs from 1.0, and the
\* harmonic-enhancement stage iff harmonic_enhancement > 0.
C17_OptionalStages ==
  op = "compile" =>
    LET chain == result.filter_chain
    IN  /\ (StagesOf(chain, "saturation") # {}) <=> (analysis.saturation_amount > 0)
        /\ (StagesOf(chain, "stereo") # {}) <=> (analysis.stereo_width # 1000)
        /\ (StagesOf(chain, "harmonic") # {}) <=> (analysis.harmonic_enhancement > 0)
        /\ \A stage \in {"saturation", "stereo", "harmonic"} :
             Cardinality(StagesOf(chain, stage)) <= 1

\* C17 witness: a compile of a ParameterSet narrower than 1.0 with saturation
\* at zero: no saturation stage, a stereo stage and a harmonic stage.
C17_Witness ==
  /\ op = "compile"
  /\ analysis.saturation_amount = 0
  /\ analysis.stereo_width < 1000
  /\ analysis.harmonic_enhancement > 0
  /\ StagesOf(result.filter_chain, "saturation") = {}
  /\ StagesOf(result.filter_chain, "stereo") # {}
  /\ StagesOf(result.filter_chain, "harmonic") # {}

\* C18: every compiled chain is a well-formed graph: one source, one sink,
\* links only forward (no cycle), each of the split's three branches consumed
\* by the one merge, and the merge's output linked to the stage after it.
C18_GraphWellFormed ==
  op = "compile" =>
    LET chain == result.filter_chain
        split == CHOOSE i \in DOMAIN chain : chain[i].stage = "split"
        merge == CHOOSE i \in DOMAIN chain : chain[i].stage = "merge"
    IN  /\ Cardinality(OpenInputs(chain)) = 1
        /\ Cardinality(OpenOutputs(chain)) = 1
        /\ \A e \in Edges(chain) : e[1] < e[2]
        /\ \A l \in Labels(chain[split].outs) :
             \E i \in DOMAIN chain :
               /\ l \in Labels(chain[i].ins)
               /\ Chained(chain, i)
               /\ <<i + 1, merge>> \in Edges(chain)
        /\ Len(chain[split].outs) = Len(chain[merge].ins)
        /\ <<merge, merge + 1>> \in Edges(chain)

\* The section 3 invariants of a ParameterSet
Valid(params) ==
  /\ params.target_lufs >= -18000 /\ params.target_lufs <= -8000
  /\ params.stereo_width >= 800 /\ params.stereo_width <= 1500
  /\ \A r \in Ratios(params) : r >= 1000
  /\ \A b \in EqBandNames : Abs(params.eq_bands[b].gain) <= 6000

\* C19: the chain builder returns an error and no chain when its ParameterSet
\* violates a section 3 invariant, and a chain otherwise.
C19_CompileRejectsInvalid ==
  op = "compile" =>
    /\ Valid(analysis) <=> "filter_chain" \in DOMAIN result
    /\ ~Valid(analysis) <=> "error" \in DOMAIN result

\* What the call of thread t returns when no other call runs
Alone(call) ==
  LET optimal == Optimized(InitialAiProfiles, load_genre_templates(training_tracks),
                           call.analysis)
  IN  IF call.kind = "preview" THEN PreviewEdits(optimal) ELSE optimal

\* C20: resolve and preview calls share no mutable state: however their
\* statements interleave, the catalog and the loaded templates keep their
\* values of engine start, and every call returns what it returns when run
\* alone.
C20_NoSharedMutableState ==
  /\ ai_profiles = InitialAiProfiles
  /\ genre_templates = load_genre_templates(training_tracks)
  /\ \A t \in Threads :
       calls[t].pc = "returned" => calls[t].params = Alone(calls[t])

\* C20 witness: a preview has returned on one thread while a resolve of
\* another track, started from the same catalog profile and with a template
\* applied, is still running on the other.
C20_Witness ==
  \E t, u \in Threads :
    /\ calls[t].pc = "returned" /\ calls[t].kind = "preview"
    /\ calls[u].pc = "templated" /\ calls[u].kind = "resolve"
    /\ calls[t].analysis # calls[u].analysis
    /\ BaseLabel(InitialAiProfiles, calls[t].analysis)
         = BaseLabel(InitialAiProfiles, calls[u].analysis)
    /\ calls[t].params # InitialAiProfiles[BaseLabel(InitialAiProfiles, calls[t].analysis)]
    /\ calls[u].params # InitialAiProfiles[BaseLabel(InitialAiProfiles, calls[u].analysis)]

\* The template the last resolve applied: the one filed under the lower-cased
\* genre hint
TemplatePresent == Lower(Get(analysis, "genre", "")) \in DOMAIN genre_templates

TemplateOfCall == genre_templates[Lower(Get(analysis, "genre", ""))]

\* C21: with a template present for the genre hint, a measured LUFS in
\* [-20, -12] and a measured dynamic range in [4, 15], the resolved target LUFS
\* is the template's mean LUFS: the track overlay leaves the target alone.
C21_TemplateTargetKept ==
  (op = "resolve" /\ TemplatePresent
     /\ analysis.integrated_lufs >= -20000 /\ analysis.integrated_lufs <= -12000
     /\ analysis.dynamic_range_db >= 4000 /\ analysis.dynamic_range_db <= 15000)
    => /\ result.target_lufs = TemplateOfCall.target_parameters.lufs_target
       /\ result.target_lufs =
            GenreStats(training_tracks, Lower(analysis.genre)).avg_lufs

\* C21 witness: a resolve of a quiet-but-in-range track (measured -18 LUFS,
\* dynamic range 9) against a template whose mean is louder than -12 LUFS and
\* differs from the base profile's target; the result carries the mean.
C21_Witness ==
  /\ op = "resolve" /\ TemplatePresent
  /\ analysis.integrated_lufs = -18000
  /\ analysis.dynamic_range_db = 9000
  /\ TemplateOfCall.target_parameters.lufs_target > -12000
  /\ TemplateOfCall.target_parameters.lufs_target # BaseOfCall.target_lufs
  /\ result.target_lufs = TemplateOfCall.target_parameters.lufs_target

\* C22: every resolve of a track measured louder than -12 LUFS, with or without
\* a genre template applied before, returns gentle processing, a limiter
\* ceiling of at least -1.0 and a target of at most max(-13.0, measured - 1.0);
\* the track overlay's target replaces the template's.
C22_LoudInputRule ==
  (op = "resolve" /\ analysis.integrated_lufs > -12000)
    => /\ result.gentle_processing
       /\ result.limiter_ceiling >= -1000
       /\ result.target_lufs <= Max(-13000, analysis.integrated_lufs - 1000)

\* C22 witness: a loud track (measured -5 LUFS) resolved against a template
\* whose mean is louder than the rule allows; the result carries the rule's
\* target of -6.0, not the template's mean.
C22_Witness ==
  /\ op = "resolve" /\ TemplatePresent
  /\ analysis.integrated_lufs = -5000
  /\ TemplateOfCall.target_parameters.lufs_target > -6000
  /\ result.target_lufs = -6000
  /\ result.gentle_processing
  /\ ~BaseOfCall.gentle_processing

\* C23: every resolve of a track whose measured dynamic range is below 4 dB
\* returns gentle processing and a target LUFS no greater than -15.0.
C23_SquashedTargetCapped ==
  (op = "resolve" /\ analysis.dynamic_range_db < 4000)
    => /\ result.gentle_processing
       /\ result.target_lufs <= -15000

\* The gain the last resolve added to an EQ band of its base profile
GainAdded(band) == result.eq_bands[band].gain - BaseOfCall.eq_bands[band].gain

\* C24: when a template is applied (and the track's own bass and high emphasis
\* trigger no track rule), a template bass emphasis above 0.3 raises the bass
\* gain by some b > 0 and the sub-bass gain by 0.7 b, a template high emphasis
\* above 0.3 raises the presence gain by some h > 0 and the air gain by 0.8 h,
\* and an emphasis at or below 0.3 leaves the two gains as they were.
C24_GenreOverlayEq ==
  (op = "resolve" /\ TemplatePresent
     /\ analysis.bass_emphasis = 300 /\ analysis.high_emphasis = 300)
    => LET t == TemplateOfCall.target_parameters
       IN  /\ t.bass_emphasis > 300
                => GainAdded("bass") > 0
                   /\ GainAdded("sub_bass") = MulK(GainAdded("bass"), 700)
           /\ t.bass_emphasis <= 300
                => GainAdded("bass") = 0 /\ GainAdded("sub_bass") = 0
           /\ t.high_emphasis > 300
                => GainAdded("presence") > 0
                   /\ GainAdded("air") = MulK(GainAdded("presence"), 800)
           /\ t.high_emphasis <= 300
                => GainAdded("presence") = 0 /\ GainAdded("air") = 0

\* The filter of a named stage of the last compiled chain
StageOfChain(stage) ==
  result.filter_chain[CHOOSE i \in DOMAIN result.filter_chain :
                        result.filter_chain[i].stage = stage]

\* The threshold, ratio, attack and release a dynamics stage carries
BandSettings(filter) ==
  [threshold |-> filter.args.threshold, ratio |-> filter.args.ratio,
   attack |-> filter.args.attack, release |-> filter.args.release]

\* The dynamics stage of each branch carries its own band's settings and
\* follows its band filter directly, in the branch fed by its split output
C25_OwnBandSettings ==
  op = "compile" =>
    \A b \in MbBandNames :
      LET chain == result.filter_chain
          i == CHOOSE k \in DOMAIN chain : chain[k].ins = <<b>>
      IN  /\ Cardinality({k \in DOMAIN chain : chain[k].ins = <<b>>}) = 1
          /\ Chained(chain, i)
          /\ chain[i + 1].filter = "acompressor"
          /\ BandSettings(chain[i + 1]) = analysis.multiband_compression[b]
          /\ chain[i + 1].outs = <<IF b = "low" THEN "low_out"
                                   ELSE IF b = "mid" THEN "mid_out" ELSE "high_out">>

\* C25: each multiband branch is band-limited and compressed by its own band's
\* settings: the low branch is a 250 Hz lowpass and the low band's dynamics,
\* the mid branch a bandpass passing 250 Hz to 2500 Hz and the mid band's
\* dynamics, the high branch a 2500 Hz highpass and the high band's dynamics.
C25_BranchesBandLimited ==
  op = "compile" =>
    /\ C25_OwnBandSettings
    /\ StageOfChain("low_filter").filter = "lowpass"
    /\ LastSet(StageOfChain("low_filter").args.f) = 250
    /\ StageOfChain("high_filter").filter = "highpass"
    /\ LastSet(StageOfChain("high_filter").args.f) = 2500
    /\ StageOfChain("mid_filter").filter = "bandpass"
    /\ BandpassEdges(StageOfChain("mid_filter")) = <<250, 2500>>

C27_StatisticsAgree ==
  \A g \in GenreNames :
    genre_statistics[g] # NoRow
      => genre_statistics[g].track_count = Cardinality(RowsOf(training_tracks, g))

\* C28: when two store_track_analysis calls for different tracks of one genre
\* run concurrently on separate connections, then once both have returned the
\* genre's track_count equals the number of training_tracks rows of the genre.
C28_ConcurrentStoresCounted ==
  ((\A t \in Threads : calls[t].pc = "returned")
     /\ \A t, u \in Threads : calls[t].genre = calls[u].genre)
    => \A t \in Threads :
         genre_statistics[calls[t].genre].track_count =
           Cardinality(RowsOf(training_tracks, calls[t].genre))

\* C29: outside dev mode, /process-full answers with a download_url only for a
\* request whose checkout session verifies as paid or whose email belongs to
\* an active subscriber.
C29_PaidBeforeDownload ==
  (op = "process-full"
     /\ ~DEV_MODE(analysis.stripe_secret_key)
     /\ "download_url" \in DOMAIN result.content)
    => \/ verify_session_paid(analysis.session)
       \/ is_active_subscriber(analysis.subscriptions)

\* C30: among the requests the service can be handed, some request makes
\* make_master return a result with ai_powered true
\* and no fallback flag, so that /process-full answers with ai_mastering_info,
\* and some request makes /preview report from the engine's analysis instead
\* of the hard-coded default one.
C30_EnginePathReachable ==
  analysis \in ProcessFullRequests \cup PreviewRequests =>
  /\ \E request \in ProcessFullRequests :
       /\ make_master(request.returncode).raised = NoException
       /\ Get(make_master(request.returncode).value, "ai_powered", FALSE)
       /\ ~Get(make_master(request.returncode).value, "fallback", FALSE)
       /\ "ai_mastering_info" \in DOMAIN process_full(request).content
  /\ \E request \in PreviewRequests :
       "analysis_error" \notin DOMAIN preview(request).analysis

====
